---- MODULE Spec2Model ----
(***************************************************************************)
(* A state-machine model of cark-ref-counted: the RefCountFamily /         *)
(* RefCounted / WeakFamily / WeakPointer capabilities (src/src/traits.rs)  *)
(* and their two implementations, for Rc (src/src/concrete/rc.rs) and for  *)
(* Arc (src/src/concrete/arc.rs).  Every method of the two impls forwards  *)
(* to the inherent method of std::rc::Rc / std::sync::Arc (and their Weak) *)
(* named in its body; the model gives each forwarded call the behaviour of *)
(* that inherent method on the allocation's (strong, weak, payload) cell.  *)
(*                                                                         *)
(* An allocation is a cell of the heap.  As in std, the cell's weak        *)
(* counter holds one implicit weak reference on behalf of all the strong   *)
(* handles; weak_count() subtracts it.  A handle is a pointer to a cell;   *)
(* handles to one cell are equal values, so the program's handles are kept *)
(* as bags: how many strong and weak handles it holds to each cell.        *)
(*                                                                         *)
(* Spec runs the calls of one flavor on one thread, each call one step.    *)
(* ConcSpec runs the Arc flavor with its handles shared by threads, each   *)
(* call a sequence of steps on Arc's atomic counters.                      *)
(***************************************************************************)
EXTENDS Integers, FiniteSets, Sequences, TLC

\* ---- bounds of the model ------------------------------------------------
MaxAllocs == 2      \* addresses the allocator can hand out
MaxHandles == 3     \* handles and raw pointers the program holds at a time

Addr == 1..MaxAllocs
Values == {5, 6}        \* payloads: the integers of the copy-on-write scenario
Families == {"RcMark", "ArcMark"}
Mutations == {"none", "add1", "sub1"}
Threads == {"t1", "t2"}  \* the threads that share Arc handles

VARIABLES
    family,     \* the family marker the program was instantiated with
    heap,       \* Addr -> the allocation's cell
    strongs,    \* Addr -> number of strong handles the program holds to it
    weaks,      \* Addr -> number of weak handles the program holds to it
    dangling,   \* number of weak handles with no allocation (WeakFamily::new)
    raws,       \* Addr -> number of raw pointers owning a strong reference
    cyc,        \* the new_cyclic call in progress (its initializer is running)
    last,       \* the last operation called and what it returned
    threads     \* Threads -> the call a thread is in the middle of (Arc, shared)

vars == <<family, heap, strongs, weaks, dangling, raws, cyc, last, threads>>

\* ---- values ----------------------------------------------------------------
FreeCell == [st |-> "free", strong |-> 0, weak |-> 0, val |-> 0]
NewCell(v) == [st |-> "live", strong |-> 1, weak |-> 1, val |-> v]
UninitCell == [st |-> "uninit", strong |-> 0, weak |-> 1, val |-> 0]
DeadCell(n) == [st |-> "dead", strong |-> 0, weak |-> n, val |-> 0]

\* Handle values: a pointer to a cell, or the weak handle with no cell.
Ptr(a) == [kind |-> "ptr", box |-> a]
DanglingWeak == [kind |-> "dangling", box |-> 0]
NoCyc == [on |-> FALSE, box |-> 0]

\* A thread between calls; and in the middle of one: where it is, the cell
\* of the handle it was called on, the counter value it loaded, and the cell
\* of the handle it is about to hand back.
Idle == [pc |-> "idle", box |-> 0, n |-> 0, out |-> 0]
At(pc, a, n, out) == [pc |-> pc, box |-> a, n |-> n, out |-> out]

\* A raw payload address: the address of the value field of a cell.
RawPtr(a) == [base |-> a, field |-> "value"]
DanglingRaw == [base |-> 0, field |-> "dangling"]
RawPtrs == {RawPtr(a) : a \in Addr}

\* What is known of the last call: the operation, the cell its handle (or
\* address) argument pointed to, the cell the handle it returned or left
\* behind points to (0: none), its outcome, the payload passed or returned,
\* what the caller did with a `&mut T` it got, and the strong_count and
\* weak_count read just before the call.
Ret(op, a, out, res, val, arg, sc, wc) ==
    [op |-> op, box |-> a, out |-> out, res |-> res, val |-> val, arg |-> arg,
     sc |-> sc, wc |-> wc]

Sum(f) == LET S[n \in 0..MaxAllocs] == IF n = 0 THEN 0 ELSE S[n - 1] + f[n] IN S[MaxAllocs]
Free(a) == heap[a].st = "free"
\* Room for one more handle or raw pointer.
Room == Sum(strongs) + Sum(weaks) + dangling + Sum(raws) < MaxHandles
\* The program holds the handle value.
HeldStrong(hv) == hv.kind = "ptr" /\ strongs[hv.box] > 0
HeldWeak(wv) == IF wv.kind = "ptr" THEN weaks[wv.box] > 0 ELSE dangling > 0
StrongHandles == {Ptr(a) : a \in Addr}
WeakHandles == StrongHandles \cup {DanglingWeak}

\* ---- reference-count bookkeeping of the underlying pointers -------------
\* Faulty variant: a payload that outlives its last strong reference while
\* weak handles remain.
DropStrongRef_KeptByWeak(hp, a) ==
    IF hp[a].strong # 1
    THEN [hp EXCEPT ![a].strong = @ - 1]
    ELSE IF hp[a].weak = 1
         THEN [hp EXCEPT ![a] = FreeCell]
         ELSE [hp EXCEPT ![a].strong = 0, ![a].weak = @ - 1]

\* Dropping one strong reference: the last one drops the payload and then the
\* implicit weak reference, which frees the memory unless weak handles remain.
DropStrongRef(hp, a) ==
    IF hp[a].strong # 1
    THEN [hp EXCEPT ![a].strong = @ - 1]
    ELSE IF hp[a].weak = 1
         THEN [hp EXCEPT ![a] = FreeCell]
         ELSE [hp EXCEPT ![a] = DeadCell(hp[a].weak - 1)]

\* Dropping one weak reference: the last one frees the memory.
DropWeakRef(hp, a) ==
    IF hp[a].weak = 1
    THEN [hp EXCEPT ![a] = FreeCell]
    ELSE [hp EXCEPT ![a].weak = @ - 1]

\* ---- the atomic counters of Arc ------------------------------------------
\* Arc keeps its two counters in atomics.  compare_exchange(old, new) on the
\* strong or the weak counter of cell a: whether it succeeded, and the heap after.
CasStrong(hp, a, old, new) ==
    IF hp[a].strong = old
    THEN [ok |-> TRUE, hp |-> [hp EXCEPT ![a].strong = new]]
    ELSE [ok |-> FALSE, hp |-> hp]

CasWeak(hp, a, old, new) ==
    IF hp[a].weak = old
    THEN [ok |-> TRUE, hp |-> [hp EXCEPT ![a].weak = new]]
    ELSE [ok |-> FALSE, hp |-> hp]

\* fetch_add(1) / fetch_sub(1) on a counter: the heap after (the value read is
\* the counter's value in hp).
FetchAddStrong(hp, a) == [hp EXCEPT ![a].strong = @ + 1]
FetchSubStrong(hp, a) == [hp EXCEPT ![a].strong = @ - 1]
FetchAddWeak(hp, a) == [hp EXCEPT ![a].weak = @ + 1]
FetchSubWeak(hp, a) == [hp EXCEPT ![a].weak = @ - 1]

\* The value get_mut's uniqueness check parks in the weak counter (usize::MAX)
\* while it looks at the strong counter.
WeakLocked == 0 - 1

\* drop_in_place of the payload, or moving it out: the cell holds none after.
TakePayload(hp, a) == [hp EXCEPT ![a].st = "dead", ![a].val = 0]

\* Dropping the `Weak` a strong drop builds for the implicit weak reference,
\* or a weak handle: the last weak reference deallocates the cell.
ArcDropWeakRef(hp, a) ==
    IF hp[a].weak = 1 THEN [hp EXCEPT ![a] = FreeCell] ELSE FetchSubWeak(hp, a)

\* Arc's Drop run to its end: fetch_sub on the strong counter; the thread that
\* read 1 drops the payload and then the implicit weak reference.
ArcDropStrongRef(hp, a) ==
    IF hp[a].strong # 1
    THEN FetchSubStrong(hp, a)
    ELSE ArcDropWeakRef(TakePayload(FetchSubStrong(hp, a), a), a)

\* What the caller does with a `&mut T` it was handed (`*r += 1`, or nothing).
ApplyWrite(m, x) ==
    IF m = "add1" /\ x + 1 \in Values THEN x + 1
    ELSE IF m = "sub1" /\ x - 1 \in Values THEN x - 1
    ELSE x

\* ---- reads ----------------------------------------------------------------
\* Faulty variant: a weak_count that forgets the implicit weak reference.
WeakCount_NoImplicit(hv) == heap[hv.box].weak

AsPtr(hv) == RawPtr(hv.box)
StrongCount(hv) == heap[hv.box].strong
WeakCount(hv) == heap[hv.box].weak - 1
DerefTarget(hv) == heap[hv.box].val

Rc_as_ptr(hv) == AsPtr(hv)
Arc_as_ptr(hv) == AsPtr(hv)
Rc_strong_count(hv) == StrongCount(hv)
Arc_strong_count(hv) == StrongCount(hv)
Rc_weak_count(hv) == WeakCount(hv)
\* Arc::weak_count reads 0 while the weak counter is locked.
Arc_weak_count(hv) ==
    LET cnt == heap[hv.box].weak IN IF cnt = WeakLocked THEN 0 ELSE cnt - 1

\* The calls a program generic over the family makes resolve to the impl of
\* the family's Pointer type.
as_ptr(hv) == IF family = "RcMark" THEN Rc_as_ptr(hv) ELSE Arc_as_ptr(hv)
strong_count(hv) == IF family = "RcMark" THEN Rc_strong_count(hv) ELSE Arc_strong_count(hv)
weak_count(hv) == IF family = "RcMark" THEN Rc_weak_count(hv) ELSE Arc_weak_count(hv)

\* Reads of a weak handle.
WeakAsPtr(wv) == IF wv.kind = "ptr" THEN RawPtr(wv.box) ELSE DanglingRaw
WeakStrongCount(wv) == IF wv.kind = "ptr" THEN heap[wv.box].strong ELSE 0
WeakWeakCount(wv) ==
    IF wv.kind = "ptr" /\ heap[wv.box].strong > 0 THEN heap[wv.box].weak - 1 ELSE 0
WeakPtrEq(wv, xv) == WeakAsPtr(wv) = WeakAsPtr(xv)

RcWeak_as_ptr(wv) == WeakAsPtr(wv)
ArcWeak_as_ptr(wv) == WeakAsPtr(wv)
RcWeak_strong_count(wv) == WeakStrongCount(wv)
ArcWeak_strong_count(wv) == WeakStrongCount(wv)
RcWeak_weak_count(wv) == WeakWeakCount(wv)
ArcWeak_weak_count(wv) ==
    IF wv.kind # "ptr" THEN 0
    ELSE LET weak == heap[wv.box].weak
             strong == heap[wv.box].strong
         IN IF strong = 0 THEN 0 ELSE weak - 1
RcWeak_ptr_eq(wv, xv) == WeakPtrEq(wv, xv)
ArcWeak_ptr_eq(wv, xv) == WeakPtrEq(wv, xv)

weak_as_ptr(wv) == IF family = "RcMark" THEN RcWeak_as_ptr(wv) ELSE ArcWeak_as_ptr(wv)
weak_strong_count(wv) ==
    IF family = "RcMark" THEN RcWeak_strong_count(wv) ELSE ArcWeak_strong_count(wv)
weak_weak_count(wv) ==
    IF family = "RcMark" THEN RcWeak_weak_count(wv) ELSE ArcWeak_weak_count(wv)
weak_ptr_eq(wv, xv) == IF family = "RcMark" THEN RcWeak_ptr_eq(wv, xv) ELSE ArcWeak_ptr_eq(wv, xv)

\* ---- the state after construction ----------------------------------------
Init ==
    /\ family \in Families
    /\ heap = [a \in Addr |-> FreeCell]
    /\ strongs = [a \in Addr |-> 0]
    /\ weaks = [a \in Addr |-> 0]
    /\ dangling = 0
    /\ raws = [a \in Addr |-> 0]
    /\ cyc = NoCyc
    /\ last = Ret("init", 0, 0, "ok", 0, "none", 0, 0)
    /\ threads = [t \in Threads |-> Idle]

\* ---- family constructors ---------------------------------------------------
FamilyNew(v) ==
    /\ Room
    /\ \E a \in Addr :
        /\ Free(a)
        /\ heap' = [heap EXCEPT ![a] = NewCell(v)]
        /\ strongs' = [strongs EXCEPT ![a] = @ + 1]
        /\ last' = Ret("new", 0, a, "ok", v, "none", 0, 0)
    /\ UNCHANGED <<family, threads, weaks, dangling, raws, cyc>>

RcMark_new(v) == family = "RcMark" /\ FamilyNew(v)
ArcMark_new(v) == family = "ArcMark" /\ FamilyNew(v)

\* ---- the association of families and pointer types --------------------------
\* The `type X = Y` items of the impls: which pointer type a family names,
\* and which family (Mark) a pointer type names.
Pointers == {"Rc", "Arc"}
WeakFamilies == {"WeakArcMark"}

\* Faulty variant: Rc naming Arc's family as its Mark.
PointerMark_Crossed == ("Rc" :> "ArcMark") @@ ("Arc" :> "ArcMark")

FamilyPointer == ("RcMark" :> "Rc") @@ ("ArcMark" :> "Arc")
PointerMark == ("Rc" :> "RcMark") @@ ("Arc" :> "ArcMark")
PointerWeakPointer == ("Rc" :> "rc::Weak") @@ ("Arc" :> "sync::Weak")
WeakPointerStrongPointer == ("rc::Weak" :> "Rc") @@ ("sync::Weak" :> "Arc")
WeakPointerStrongMark == ("rc::Weak" :> "RcMark") @@ ("sync::Weak" :> "ArcMark")
\* Only the Arc flavor has a weak family.
FamilyWeakMark == ("ArcMark" :> "WeakArcMark")
PointerWeakMark == ("Arc" :> "WeakArcMark")
WeakFamilyPointer == ("WeakArcMark" :> "sync::Weak")
WeakFamilyStrongPointer == ("WeakArcMark" :> "Arc")
WeakFamilyStrongMark == ("WeakArcMark" :> "ArcMark")
WeakPointerMark == ("sync::Weak" :> "WeakArcMark")

\* RefCounted::new, called on the pointer type P: it calls new of P's Mark,
\* and returns that family's Pointer type.
PointerNew(P, v) ==
    LET mark == PointerMark[P] IN
    /\ Room
    /\ \E a \in Addr :
        /\ Free(a)
        /\ heap' = [heap EXCEPT ![a] = NewCell(v)]
        /\ strongs' = [strongs EXCEPT ![a] = @ + 1]
        /\ last' = Ret("pointer_new", 0, a, FamilyPointer[mark], v, "none", 0, 0)
    /\ UNCHANGED <<family, threads, weaks, dangling, raws, cyc>>

Rc_new(v) == family = "RcMark" /\ PointerNew("Rc", v)
Arc_new(v) == family = "ArcMark" /\ PointerNew("Arc", v)

\* WeakFamily::new: a weak handle with no allocation behind it.
WeakArcMark_new ==
    /\ family = "ArcMark"
    /\ Room
    /\ dangling' = dangling + 1
    /\ last' = Ret("weak_new", 0, 0, "ok", 0, "none", 0, 0)
    /\ UNCHANGED <<family, threads, heap, strongs, weaks, raws, cyc>>

\* ---- Clone and Drop of strong handles -------------------------------------
\* Faulty variant: a clone that copies the pointer without counting it.
StrongClone_Uncounted(hv) ==
    /\ HeldStrong(hv)
    /\ Room
    /\ strongs' = [strongs EXCEPT ![hv.box] = @ + 1]
    /\ last' = Ret("clone", hv.box, hv.box, "ok", 0, "none", StrongCount(hv), WeakCount(hv))
    /\ UNCHANGED <<family, threads, heap, weaks, dangling, raws, cyc>>

StrongClone(hv) ==
    /\ HeldStrong(hv)
    /\ Room
    /\ heap' = [heap EXCEPT ![hv.box].strong = @ + 1]
    /\ strongs' = [strongs EXCEPT ![hv.box] = @ + 1]
    /\ last' = Ret("clone", hv.box, hv.box, "ok", 0, "none", StrongCount(hv), WeakCount(hv))
    /\ UNCHANGED <<family, threads, weaks, dangling, raws, cyc>>

\* Arc's Clone: one fetch_add on the strong counter.
ArcClone(hv) ==
    /\ HeldStrong(hv)
    /\ Room
    /\ heap' = FetchAddStrong(heap, hv.box)
    /\ strongs' = [strongs EXCEPT ![hv.box] = @ + 1]
    /\ last' = Ret("clone", hv.box, hv.box, "ok", 0, "none", Arc_strong_count(hv),
                   Arc_weak_count(hv))
    /\ UNCHANGED <<family, threads, weaks, dangling, raws, cyc>>

Rc_clone(hv) == family = "RcMark" /\ StrongClone(hv)
Arc_clone(hv) == family = "ArcMark" /\ ArcClone(hv)

StrongDrop(hv) ==
    /\ HeldStrong(hv)
    /\ heap' = DropStrongRef(heap, hv.box)
    /\ strongs' = [strongs EXCEPT ![hv.box] = @ - 1]
    /\ last' = Ret("drop", hv.box, 0, "ok", 0, "none", StrongCount(hv), WeakCount(hv))
    /\ UNCHANGED <<family, threads, weaks, dangling, raws, cyc>>

ArcDrop(hv) ==
    /\ HeldStrong(hv)
    /\ heap' = ArcDropStrongRef(heap, hv.box)
    /\ strongs' = [strongs EXCEPT ![hv.box] = @ - 1]
    /\ last' = Ret("drop", hv.box, 0, "ok", 0, "none", Arc_strong_count(hv), Arc_weak_count(hv))
    /\ UNCHANGED <<family, threads, weaks, dangling, raws, cyc>>

Rc_drop(hv) == family = "RcMark" /\ StrongDrop(hv)
Arc_drop(hv) == family = "ArcMark" /\ ArcDrop(hv)

\* ---- downgrade, and the weak handle's upgrade / Clone / Drop ---------------
\* Faulty variant: a downgrade that returns the weak handle with no allocation.
Downgrade_Dangling(hv) ==
    /\ HeldStrong(hv)
    /\ Room
    /\ dangling' = dangling + 1
    /\ last' = Ret("downgrade", hv.box, 0, "ok", 0, "none", StrongCount(hv), WeakCount(hv))
    /\ UNCHANGED <<family, threads, heap, strongs, weaks, raws, cyc>>

\* Faulty variant: a downgrade that counts its handle as a strong one.
Downgrade_CountsStrong(hv) ==
    /\ HeldStrong(hv)
    /\ Room
    /\ heap' = [heap EXCEPT ![hv.box].strong = @ + 1]
    /\ weaks' = [weaks EXCEPT ![hv.box] = @ + 1]
    /\ last' = Ret("downgrade", hv.box, hv.box, "ok", 0, "none", StrongCount(hv), WeakCount(hv))
    /\ UNCHANGED <<family, threads, strongs, dangling, raws, cyc>>

Downgrade(hv) ==
    /\ HeldStrong(hv)
    /\ Room
    /\ heap' = [heap EXCEPT ![hv.box].weak = @ + 1]
    /\ weaks' = [weaks EXCEPT ![hv.box] = @ + 1]
    /\ last' = Ret("downgrade", hv.box, hv.box, "ok", 0, "none", StrongCount(hv), WeakCount(hv))
    /\ UNCHANGED <<family, threads, strongs, dangling, raws, cyc>>

\* Arc's downgrade: reads the weak counter (waiting while it is locked) and
\* compare-exchanges it one up.
ArcDowngrade(hv) ==
    LET a == hv.box
        cur == heap[a].weak
    IN
    /\ HeldStrong(hv)
    /\ Room
    /\ cur # WeakLocked
    /\ heap' = CasWeak(heap, a, cur, cur + 1).hp
    /\ weaks' = [weaks EXCEPT ![a] = @ + 1]
    /\ last' = Ret("downgrade", a, a, "ok", 0, "none", Arc_strong_count(hv), Arc_weak_count(hv))
    /\ UNCHANGED <<family, threads, strongs, dangling, raws, cyc>>

Rc_downgrade(hv) == family = "RcMark" /\ Downgrade(hv)
Arc_downgrade(hv) == family = "ArcMark" /\ ArcDowngrade(hv)

\* Faulty variant: an upgrade that checks only that the weak handle has an allocation.
Upgradable_AnyAllocation(wv) == wv.kind = "ptr"

\* Whether the weak handle wv has a payload to upgrade to.
Upgradable(wv) == wv.kind = "ptr" /\ heap[wv.box].strong # 0

\* upgrade() on the weak handle wv.  `op` tags who called it.
UpgradeValue(wv, op) ==
    /\ IF Upgradable(wv)
       THEN /\ Room
            /\ heap' = [heap EXCEPT ![wv.box].strong = @ + 1]
            /\ strongs' = [strongs EXCEPT ![wv.box] = @ + 1]
            /\ last' = Ret(op, wv.box, wv.box, "some", 0, "none",
                           WeakStrongCount(wv), WeakWeakCount(wv))
       ELSE /\ UNCHANGED <<heap, strongs>>
            /\ last' = Ret(op, wv.box, 0, "none", 0, "none",
                           WeakStrongCount(wv), WeakWeakCount(wv))
    /\ UNCHANGED <<family, threads, weaks, dangling, raws, cyc>>

Upgrade(wv) == HeldWeak(wv) /\ UpgradeValue(wv, "upgrade")

\* Arc's Weak::upgrade: reads the strong counter n, gives up when n is 0, and
\* otherwise compare-exchanges it from n to n + 1.
ArcUpgradeValue(wv, op) ==
    LET n == ArcWeak_strong_count(wv) IN
    /\ IF wv.kind = "ptr" /\ n # 0
       THEN /\ Room
            /\ heap' = CasStrong(heap, wv.box, n, n + 1).hp
            /\ strongs' = [strongs EXCEPT ![wv.box] = @ + 1]
            /\ last' = Ret(op, wv.box, wv.box, "some", 0, "none", n, ArcWeak_weak_count(wv))
       ELSE /\ UNCHANGED <<heap, strongs>>
            /\ last' = Ret(op, wv.box, 0, "none", 0, "none", n, ArcWeak_weak_count(wv))
    /\ UNCHANGED <<family, threads, weaks, dangling, raws, cyc>>

ArcUpgrade(wv) == HeldWeak(wv) /\ ArcUpgradeValue(wv, "upgrade")

RcWeak_upgrade(wv) == family = "RcMark" /\ Upgrade(wv)
ArcWeak_upgrade(wv) == family = "ArcMark" /\ ArcUpgrade(wv)

WeakCloneValue(wv, op) ==
    /\ Room
    /\ IF wv.kind = "ptr"
       THEN /\ heap' = [heap EXCEPT ![wv.box].weak = @ + 1]
            /\ weaks' = [weaks EXCEPT ![wv.box] = @ + 1]
            /\ UNCHANGED dangling
       ELSE /\ dangling' = dangling + 1
            /\ UNCHANGED <<heap, weaks>>
    /\ last' = Ret(op, wv.box, wv.box, "ok", 0, "none", WeakStrongCount(wv), WeakWeakCount(wv))
    /\ UNCHANGED <<family, threads, strongs, raws, cyc>>

WeakClone(wv) == HeldWeak(wv) /\ WeakCloneValue(wv, "weak_clone")

RcWeak_clone(wv) == family = "RcMark" /\ WeakClone(wv)
ArcWeak_clone(wv) == family = "ArcMark" /\ WeakClone(wv)

WeakDrop(wv) ==
    /\ HeldWeak(wv)
    /\ IF wv.kind = "ptr"
       THEN /\ heap' = DropWeakRef(heap, wv.box)
            /\ weaks' = [weaks EXCEPT ![wv.box] = @ - 1]
            /\ UNCHANGED dangling
       ELSE /\ dangling' = dangling - 1
            /\ UNCHANGED <<heap, weaks>>
    /\ last' = Ret("weak_drop", wv.box, 0, "ok", 0, "none", WeakStrongCount(wv), WeakWeakCount(wv))
    /\ UNCHANGED <<family, threads, strongs, raws, cyc>>

\* Drop of Arc's Weak: nothing for the handle with no allocation; otherwise
\* fetch_sub on the weak counter, and the thread that read 1 deallocates.
ArcWeakDrop(wv) ==
    /\ HeldWeak(wv)
    /\ IF wv.kind = "ptr"
       THEN /\ heap' = ArcDropWeakRef(heap, wv.box)
            /\ weaks' = [weaks EXCEPT ![wv.box] = @ - 1]
            /\ UNCHANGED dangling
       ELSE /\ dangling' = dangling - 1
            /\ UNCHANGED <<heap, weaks>>
    /\ last' = Ret("weak_drop", wv.box, 0, "ok", 0, "none", ArcWeak_strong_count(wv),
                   ArcWeak_weak_count(wv))
    /\ UNCHANGED <<family, threads, strongs, raws, cyc>>

RcWeak_drop(wv) == family = "RcMark" /\ WeakDrop(wv)
ArcWeak_drop(wv) == family = "ArcMark" /\ ArcWeakDrop(wv)

\* ---- mutation --------------------------------------------------------------
\* Faulty variant: a make_mut that always hands out the shared payload.
MakeMut_InPlace(hv, m) ==
    /\ HeldStrong(hv)
    /\ heap' = [heap EXCEPT ![hv.box].val = ApplyWrite(m, @)]
    /\ last' = Ret("make_mut", hv.box, hv.box, "in_place", ApplyWrite(m, heap[hv.box].val), m,
                   StrongCount(hv), WeakCount(hv))
    /\ UNCHANGED <<family, threads, strongs, weaks, dangling, raws, cyc>>

\* Faulty variant: a make_mut that always clones into a new allocation.
MakeMut_AlwaysClone(hv, m) ==
    /\ HeldStrong(hv)
    /\ \E b \in Addr :
        /\ Free(b)
        /\ heap' = [DropStrongRef(heap, hv.box) EXCEPT
                       ![b] = NewCell(ApplyWrite(m, heap[hv.box].val))]
        /\ strongs' = [strongs EXCEPT ![hv.box] = @ - 1, ![b] = @ + 1]
        /\ last' = Ret("make_mut", hv.box, b, "cloned", ApplyWrite(m, heap[hv.box].val), m,
                       StrongCount(hv), WeakCount(hv))
    /\ UNCHANGED <<family, threads, weaks, dangling, raws, cyc>>

\* make_mut, and the caller's use m of the reference it returns.  A handle that
\* is not the only strong one gets a clone of the payload in a new allocation
\* and lets go of the old one; the only strong handle of an allocation that
\* weak handles still watch moves the payload to a new allocation and leaves
\* the old one to the weak handles; a unique handle is mutated in place.
MakeMut(hv, m) ==
    LET a == hv.box IN
    /\ HeldStrong(hv)
    /\ IF heap[a].strong # 1
       THEN \E b \in Addr :
               /\ Free(b)
               /\ heap' = [DropStrongRef(heap, a) EXCEPT
                              ![b] = NewCell(ApplyWrite(m, heap[a].val))]
               /\ strongs' = [strongs EXCEPT ![a] = @ - 1, ![b] = @ + 1]
               /\ last' = Ret("make_mut", a, b, "cloned", ApplyWrite(m, heap[a].val), m,
                              StrongCount(hv), WeakCount(hv))
       ELSE IF heap[a].weak - 1 # 0
       THEN \E b \in Addr :
               /\ Free(b)
               /\ heap' = [heap EXCEPT ![a] = DeadCell(heap[a].weak - 1),
                                       ![b] = NewCell(ApplyWrite(m, heap[a].val))]
               /\ strongs' = [strongs EXCEPT ![a] = @ - 1, ![b] = @ + 1]
               /\ last' = Ret("make_mut", a, b, "moved", ApplyWrite(m, heap[a].val), m,
                              StrongCount(hv), WeakCount(hv))
       ELSE /\ heap' = [heap EXCEPT ![a].val = ApplyWrite(m, @)]
            /\ UNCHANGED strongs
            /\ last' = Ret("make_mut", a, a, "in_place", ApplyWrite(m, heap[a].val), m,
                           StrongCount(hv), WeakCount(hv))
    /\ UNCHANGED <<family, threads, weaks, dangling, raws, cyc>>

\* Faulty variant: an Arc make_mut that does not look at the weak counter.
ArcMakeMut_NoWeakCheck(hv, m) ==
    LET a == hv.box
        cas == CasStrong(heap, a, 1, 0)
    IN
    /\ HeldStrong(hv)
    /\ IF ~cas.ok
       THEN \E b \in Addr :
               /\ Free(b)
               /\ heap' = [ArcDropStrongRef(heap, a) EXCEPT
                              ![b] = NewCell(ApplyWrite(m, heap[a].val))]
               /\ strongs' = [strongs EXCEPT ![a] = @ - 1, ![b] = @ + 1]
               /\ last' = Ret("make_mut", a, b, "cloned", ApplyWrite(m, heap[a].val), m,
                              Arc_strong_count(hv), Arc_weak_count(hv))
       ELSE /\ heap' = [cas.hp EXCEPT ![a].strong = 1, ![a].val = ApplyWrite(m, @)]
            /\ UNCHANGED strongs
            /\ last' = Ret("make_mut", a, a, "in_place", ApplyWrite(m, heap[a].val), m,
                           Arc_strong_count(hv), Arc_weak_count(hv))
    /\ UNCHANGED <<family, threads, weaks, dangling, raws, cyc>>

\* Arc's make_mut: compare-exchange the strong counter from 1 to 0.  If that
\* fails there are other strong handles: clone the payload into a new Arc and
\* drop the old handle.  If it succeeds and the weak counter is not 1, weak
\* handles remain: move the payload to a new Arc and drop the implicit weak
\* reference of the old one.  Otherwise the handle is unique: put the strong
\* counter back to 1 and hand out the payload in place.
ArcMakeMut(hv, m) ==
    LET a == hv.box
        cas == CasStrong(heap, a, 1, 0)
    IN
    /\ HeldStrong(hv)
    /\ IF ~cas.ok
       THEN \E b \in Addr :
               /\ Free(b)
               /\ heap' = [ArcDropStrongRef(heap, a) EXCEPT
                              ![b] = NewCell(ApplyWrite(m, heap[a].val))]
               /\ strongs' = [strongs EXCEPT ![a] = @ - 1, ![b] = @ + 1]
               /\ last' = Ret("make_mut", a, b, "cloned", ApplyWrite(m, heap[a].val), m,
                              Arc_strong_count(hv), Arc_weak_count(hv))
       ELSE IF cas.hp[a].weak # 1
       THEN \E b \in Addr :
               /\ Free(b)
               /\ heap' = [ArcDropWeakRef(TakePayload(cas.hp, a), a) EXCEPT
                              ![b] = NewCell(ApplyWrite(m, heap[a].val))]
               /\ strongs' = [strongs EXCEPT ![a] = @ - 1, ![b] = @ + 1]
               /\ last' = Ret("make_mut", a, b, "moved", ApplyWrite(m, heap[a].val), m,
                              Arc_strong_count(hv), Arc_weak_count(hv))
       ELSE /\ heap' = [cas.hp EXCEPT ![a].strong = 1, ![a].val = ApplyWrite(m, @)]
            /\ UNCHANGED strongs
            /\ last' = Ret("make_mut", a, a, "in_place", ApplyWrite(m, heap[a].val), m,
                           Arc_strong_count(hv), Arc_weak_count(hv))
    /\ UNCHANGED <<family, threads, weaks, dangling, raws, cyc>>

Rc_make_mut(hv, m) == family = "RcMark" /\ MakeMut(hv, m)
Arc_make_mut(hv, m) == family = "ArcMark" /\ ArcMakeMut(hv, m)

\* Faulty variant: a get_mut that looks at the strong count only.
GetMut_IgnoresWeak(hv, m) ==
    /\ HeldStrong(hv)
    /\ IF heap[hv.box].strong = 1
       THEN /\ heap' = [heap EXCEPT ![hv.box].val = ApplyWrite(m, @)]
            /\ last' = Ret("get_mut", hv.box, hv.box, "some", ApplyWrite(m, heap[hv.box].val),
                           m, StrongCount(hv), WeakCount(hv))
       ELSE /\ UNCHANGED heap
            /\ last' = Ret("get_mut", hv.box, hv.box, "none", 0, m,
                           StrongCount(hv), WeakCount(hv))
    /\ UNCHANGED <<family, threads, strongs, weaks, dangling, raws, cyc>>

\* get_mut, and the caller's use m of the reference when it gets one.
GetMut(hv, m) ==
    LET a == hv.box IN
    /\ HeldStrong(hv)
    /\ IF heap[a].strong = 1 /\ heap[a].weak - 1 = 0
       THEN /\ heap' = [heap EXCEPT ![a].val = ApplyWrite(m, @)]
            /\ last' = Ret("get_mut", a, a, "some", ApplyWrite(m, heap[a].val), m,
                           StrongCount(hv), WeakCount(hv))
       ELSE /\ UNCHANGED heap
            /\ last' = Ret("get_mut", a, a, "none", 0, m, StrongCount(hv), WeakCount(hv))
    /\ UNCHANGED <<family, threads, strongs, weaks, dangling, raws, cyc>>

\* Arc's get_mut: is_unique locks the weak counter (compare-exchange from 1),
\* reads the strong counter and unlocks; a reference is handed out when the
\* lock was taken and the strong counter read 1.
ArcGetMut(hv, m) ==
    LET a == hv.box
        lock == CasWeak(heap, a, 1, WeakLocked)
        unique == lock.ok /\ lock.hp[a].strong = 1
        unlocked == IF lock.ok THEN [lock.hp EXCEPT ![a].weak = 1] ELSE lock.hp
    IN
    /\ HeldStrong(hv)
    /\ IF unique
       THEN /\ heap' = [unlocked EXCEPT ![a].val = ApplyWrite(m, @)]
            /\ last' = Ret("get_mut", a, a, "some", ApplyWrite(m, heap[a].val), m,
                           Arc_strong_count(hv), Arc_weak_count(hv))
       ELSE /\ heap' = unlocked
            /\ last' = Ret("get_mut", a, a, "none", 0, m, Arc_strong_count(hv),
                           Arc_weak_count(hv))
    /\ UNCHANGED <<family, threads, strongs, weaks, dangling, raws, cyc>>

Rc_get_mut(hv, m) == family = "RcMark" /\ GetMut(hv, m)
Arc_get_mut(hv, m) == family = "ArcMark" /\ ArcGetMut(hv, m)

\* Faulty variant: a try_unwrap that drops the handle when it fails.
TryUnwrap_DropsOnErr(hv) ==
    /\ HeldStrong(hv)
    /\ IF heap[hv.box].strong = 1
       THEN /\ heap' = DropStrongRef(heap, hv.box)
            /\ last' = Ret("try_unwrap", hv.box, 0, "ok", heap[hv.box].val, "none",
                           StrongCount(hv), WeakCount(hv))
       ELSE /\ heap' = DropStrongRef(heap, hv.box)
            /\ last' = Ret("try_unwrap", hv.box, hv.box, "err", 0, "none",
                           StrongCount(hv), WeakCount(hv))
    /\ strongs' = [strongs EXCEPT ![hv.box] = @ - 1]
    /\ UNCHANGED <<family, threads, weaks, dangling, raws, cyc>>

\* try_unwrap: the only strong handle gives up the payload (and the implicit
\* weak reference); otherwise the caller gets the handle back.
TryUnwrap(hv) ==
    LET a == hv.box IN
    /\ HeldStrong(hv)
    /\ IF heap[a].strong = 1
       THEN /\ heap' = IF heap[a].weak = 1
                       THEN [heap EXCEPT ![a] = FreeCell]
                       ELSE [heap EXCEPT ![a] = DeadCell(heap[a].weak - 1)]
            /\ strongs' = [strongs EXCEPT ![a] = @ - 1]
            /\ last' = Ret("try_unwrap", a, 0, "ok", heap[a].val, "none",
                           StrongCount(hv), WeakCount(hv))
       ELSE /\ UNCHANGED <<heap, strongs>>
            /\ last' = Ret("try_unwrap", a, a, "err", 0, "none", StrongCount(hv), WeakCount(hv))
    /\ UNCHANGED <<family, threads, weaks, dangling, raws, cyc>>

\* Arc's try_unwrap: compare-exchange the strong counter from 1 to 0; on
\* success read the payload out and drop the implicit weak reference.
ArcTryUnwrap(hv) ==
    LET a == hv.box
        cas == CasStrong(heap, a, 1, 0)
    IN
    /\ HeldStrong(hv)
    /\ IF cas.ok
       THEN /\ heap' = ArcDropWeakRef(TakePayload(cas.hp, a), a)
            /\ strongs' = [strongs EXCEPT ![a] = @ - 1]
            /\ last' = Ret("try_unwrap", a, 0, "ok", heap[a].val, "none",
                           Arc_strong_count(hv), Arc_weak_count(hv))
       ELSE /\ UNCHANGED <<heap, strongs>>
            /\ last' = Ret("try_unwrap", a, a, "err", 0, "none", Arc_strong_count(hv),
                           Arc_weak_count(hv))
    /\ UNCHANGED <<family, threads, weaks, dangling, raws, cyc>>

Rc_try_unwrap(hv) == family = "RcMark" /\ TryUnwrap(hv)
Arc_try_unwrap(hv) == family = "ArcMark" /\ ArcTryUnwrap(hv)

\* ---- raw pointers ------------------------------------------------------------
\* Faulty variant: an into_raw that lets the handle drop.
IntoRaw_Drops(hv) ==
    /\ HeldStrong(hv)
    /\ heap' = DropStrongRef(heap, hv.box)
    /\ raws' = [raws EXCEPT ![AsPtr(hv).base] = @ + 1]
    /\ strongs' = [strongs EXCEPT ![hv.box] = @ - 1]
    /\ last' = Ret("into_raw", hv.box, AsPtr(hv).base, "ok", 0, "none",
                   StrongCount(hv), WeakCount(hv))
    /\ UNCHANGED <<family, threads, weaks, dangling, cyc>>

\* into_raw gives up the handle without releasing its strong reference, which
\* the returned address now stands for.
IntoRaw(hv) ==
    /\ HeldStrong(hv)
    /\ raws' = [raws EXCEPT ![AsPtr(hv).base] = @ + 1]
    /\ strongs' = [strongs EXCEPT ![hv.box] = @ - 1]
    /\ last' = Ret("into_raw", hv.box, AsPtr(hv).base, "ok", 0, "none",
                   StrongCount(hv), WeakCount(hv))
    /\ UNCHANGED <<family, threads, heap, weaks, dangling, cyc>>

Rc_into_raw(hv) == family = "RcMark" /\ IntoRaw(hv)
Arc_into_raw(hv) == family = "ArcMark" /\ IntoRaw(hv)

\* from_raw on an address p that into_raw returned and that still owns its
\* strong reference (the caller's obligation): the handle takes it over.
FromRaw(p) ==
    /\ p.field = "value"
    /\ raws[p.base] > 0
    /\ raws' = [raws EXCEPT ![p.base] = @ - 1]
    /\ strongs' = [strongs EXCEPT ![p.base] = @ + 1]
    /\ last' = Ret("from_raw", p.base, p.base, "ok", 0, "none", heap[p.base].strong,
                   heap[p.base].weak - 1)
    /\ UNCHANGED <<family, threads, heap, weaks, dangling, cyc>>

Rc_from_raw(p) == family = "RcMark" /\ FromRaw(p)
Arc_from_raw(p) == family = "ArcMark" /\ FromRaw(p)

\* increment_strong_count / decrement_strong_count on an address that into_raw
\* returned and that still owns a strong reference.
IncrementStrongCount(p) ==
    /\ p.field = "value"
    /\ raws[p.base] > 0
    /\ Room
    /\ heap' = [heap EXCEPT ![p.base].strong = @ + 1]
    /\ raws' = [raws EXCEPT ![p.base] = @ + 1]
    /\ last' = Ret("increment_strong_count", p.base, 0, "ok", 0, "none", heap[p.base].strong,
                   heap[p.base].weak - 1)
    /\ UNCHANGED <<family, threads, strongs, weaks, dangling, cyc>>

Rc_increment_strong_count(p) == family = "RcMark" /\ IncrementStrongCount(p)
Arc_increment_strong_count(p) == family = "ArcMark" /\ IncrementStrongCount(p)

DecrementStrongCount(p) ==
    /\ p.field = "value"
    /\ raws[p.base] > 0
    /\ heap' = DropStrongRef(heap, p.base)
    /\ raws' = [raws EXCEPT ![p.base] = @ - 1]
    /\ last' = Ret("decrement_strong_count", p.base, 0, "ok", 0, "none", heap[p.base].strong,
                   heap[p.base].weak - 1)
    /\ UNCHANGED <<family, threads, strongs, weaks, dangling, cyc>>

Rc_decrement_strong_count(p) == family = "RcMark" /\ DecrementStrongCount(p)
Arc_decrement_strong_count(p) == family = "ArcMark" /\ DecrementStrongCount(p)

\* ---- new_cyclic ----------------------------------------------------------------
\* new_cyclic allocates the cell with no strong reference, lends its
\* initializer a weak handle to it, and once the initializer has returned the
\* payload stores it and sets the strong count to one.
CyclicWeak == Ptr(cyc.box)

\* Faulty variant: a new_cyclic that counts the strong handle before the initializer runs.
NewCyclicBegin_EarlyStrong ==
    /\ ~cyc.on
    /\ \E a \in Addr :
        /\ Free(a)
        /\ heap' = [heap EXCEPT ![a] = [UninitCell EXCEPT !.strong = 1]]
        /\ cyc' = [on |-> TRUE, box |-> a]
        /\ last' = Ret("new_cyclic_begin", 0, a, "ok", 0, "none", 0, 0)
    /\ UNCHANGED <<family, threads, strongs, weaks, dangling, raws>>

NewCyclicBegin ==
    /\ ~cyc.on
    /\ \E a \in Addr :
        /\ Free(a)
        /\ heap' = [heap EXCEPT ![a] = UninitCell]
        /\ cyc' = [on |-> TRUE, box |-> a]
        /\ last' = Ret("new_cyclic_begin", 0, a, "ok", 0, "none", 0, 0)
    /\ UNCHANGED <<family, threads, strongs, weaks, dangling, raws>>

\* The initializer calls upgrade() on the weak handle it was lent.
InitializerUpgrade ==
    /\ cyc.on
    /\ UpgradeValue(CyclicWeak, "initializer_upgrade")

ArcInitializerUpgrade ==
    /\ cyc.on
    /\ ArcUpgradeValue(CyclicWeak, "initializer_upgrade")

\* The initializer keeps a clone of the weak handle it was lent.
InitializerClone ==
    /\ cyc.on
    /\ WeakCloneValue(CyclicWeak, "initializer_clone")

NewCyclicEnd(v) ==
    /\ cyc.on
    /\ Room
    /\ heap' = [heap EXCEPT ![cyc.box] = [st |-> "live", strong |-> 1, weak |-> @.weak,
                                          val |-> v]]
    /\ strongs' = [strongs EXCEPT ![cyc.box] = @ + 1]
    /\ cyc' = NoCyc
    /\ last' = Ret("new_cyclic", cyc.box, cyc.box, "ok", v, "none", 0, 0)
    /\ UNCHANGED <<family, threads, weaks, dangling, raws>>

Rc_new_cyclic_begin == family = "RcMark" /\ NewCyclicBegin
Arc_new_cyclic_begin == family = "ArcMark" /\ NewCyclicBegin
Rc_new_cyclic_upgrade == family = "RcMark" /\ InitializerUpgrade
Arc_new_cyclic_upgrade == family = "ArcMark" /\ ArcInitializerUpgrade
Rc_new_cyclic_clone == family = "RcMark" /\ InitializerClone
Arc_new_cyclic_clone == family = "ArcMark" /\ InitializerClone
Rc_new_cyclic(v) == family = "RcMark" /\ NewCyclicEnd(v)
Arc_new_cyclic(v) == family = "ArcMark" /\ NewCyclicEnd(v)

\* ---- the program ------------------------------------------------------------
RcNext ==
    \/ \E v \in Values : RcMark_new(v)
    \/ \E v \in Values : Rc_new(v)
    \/ \E hv \in StrongHandles : Rc_clone(hv)
    \/ \E hv \in StrongHandles : Rc_drop(hv)
    \/ \E hv \in StrongHandles : Rc_downgrade(hv)
    \/ \E wv \in WeakHandles : RcWeak_upgrade(wv)
    \/ \E wv \in WeakHandles : RcWeak_clone(wv)
    \/ \E wv \in WeakHandles : RcWeak_drop(wv)
    \/ \E hv \in StrongHandles, m \in Mutations : Rc_make_mut(hv, m)
    \/ \E hv \in StrongHandles, m \in Mutations : Rc_get_mut(hv, m)
    \/ \E hv \in StrongHandles : Rc_try_unwrap(hv)
    \/ \E hv \in StrongHandles : Rc_into_raw(hv)
    \/ \E p \in RawPtrs : Rc_from_raw(p)
    \/ \E p \in RawPtrs : Rc_increment_strong_count(p)
    \/ \E p \in RawPtrs : Rc_decrement_strong_count(p)
    \/ Rc_new_cyclic_begin
    \/ Rc_new_cyclic_upgrade
    \/ Rc_new_cyclic_clone
    \/ \E v \in Values : Rc_new_cyclic(v)

ArcNext ==
    \/ \E v \in Values : ArcMark_new(v)
    \/ \E v \in Values : Arc_new(v)
    \/ WeakArcMark_new
    \/ \E hv \in StrongHandles : Arc_clone(hv)
    \/ \E hv \in StrongHandles : Arc_drop(hv)
    \/ \E hv \in StrongHandles : Arc_downgrade(hv)
    \/ \E wv \in WeakHandles : ArcWeak_upgrade(wv)
    \/ \E wv \in WeakHandles : ArcWeak_clone(wv)
    \/ \E wv \in WeakHandles : ArcWeak_drop(wv)
    \/ \E hv \in StrongHandles, m \in Mutations : Arc_make_mut(hv, m)
    \/ \E hv \in StrongHandles, m \in Mutations : Arc_get_mut(hv, m)
    \/ \E hv \in StrongHandles : Arc_try_unwrap(hv)
    \/ \E hv \in StrongHandles : Arc_into_raw(hv)
    \/ \E p \in RawPtrs : Arc_from_raw(p)
    \/ \E p \in RawPtrs : Arc_increment_strong_count(p)
    \/ \E p \in RawPtrs : Arc_decrement_strong_count(p)
    \/ Arc_new_cyclic_begin
    \/ Arc_new_cyclic_upgrade
    \/ Arc_new_cyclic_clone
    \/ \E v \in Values : Arc_new_cyclic(v)

Next == RcNext \/ ArcNext

Spec == Init /\ [][Next]_vars

\* ---- Arc handles shared by threads ----------------------------------------
\* The Arc flavor with its handles spread over threads.  A call is a sequence
\* of steps, one per access to an atomic counter or to the payload, and the
\* steps of different threads interleave.  A thread takes the handle it calls
\* on out of the program's handles while its call runs (nobody else can drop
\* or move a borrowed handle) and puts back the handles it ends up with.
Busy == {t \in Threads : threads[t].pc # "idle"}
ConcRoom == Sum(strongs) + Sum(weaks) + Cardinality(Busy) < MaxHandles

ConcInit ==
    /\ family = "ArcMark"
    /\ heap = [a \in Addr |-> FreeCell]
    /\ strongs = [a \in Addr |-> 0]
    /\ weaks = [a \in Addr |-> 0]
    /\ dangling = 0
    /\ raws = [a \in Addr |-> 0]
    /\ cyc = NoCyc
    /\ last = Ret("init", 0, 0, "ok", 0, "none", 0, 0)
    /\ threads = [t \in Threads |-> Idle]

\* ArcMark::new: the allocation is the thread's own until it shares the handle.
ConcNew(t, v) ==
    /\ threads[t].pc = "idle"
    /\ ConcRoom
    /\ \E a \in Addr :
        /\ Free(a)
        /\ heap' = [heap EXCEPT ![a] = NewCell(v)]
        /\ strongs' = [strongs EXCEPT ![a] = @ + 1]
    /\ UNCHANGED <<family, weaks, dangling, raws, cyc, last, threads>>

\* Clone of Arc: one fetch_add.
ConcClone(t, hv) ==
    /\ threads[t].pc = "idle"
    /\ HeldStrong(hv)
    /\ ConcRoom
    /\ heap' = FetchAddStrong(heap, hv.box)
    /\ strongs' = [strongs EXCEPT ![hv.box] = @ + 1]
    /\ UNCHANGED <<family, weaks, dangling, raws, cyc, last, threads>>

\* downgrade: its compare-exchange loop on the weak counter takes effect at
\* the exchange that succeeds.
ConcDowngrade(t, hv) ==
    LET cur == heap[hv.box].weak IN
    /\ threads[t].pc = "idle"
    /\ HeldStrong(hv)
    /\ ConcRoom
    /\ cur # WeakLocked
    /\ heap' = CasWeak(heap, hv.box, cur, cur + 1).hp
    /\ weaks' = [weaks EXCEPT ![hv.box] = @ + 1]
    /\ UNCHANGED <<family, strongs, dangling, raws, cyc, last, threads>>

\* Drop of a weak handle: one fetch_sub; the thread that read 1 deallocates.
ConcWeakDrop(t, wv) ==
    /\ threads[t].pc = "idle"
    /\ wv.kind = "ptr"
    /\ HeldWeak(wv)
    /\ heap' = ArcDropWeakRef(heap, wv.box)
    /\ weaks' = [weaks EXCEPT ![wv.box] = @ - 1]
    /\ UNCHANGED <<family, strongs, dangling, raws, cyc, last, threads>>

\* Drop of a strong handle, first step: fetch_sub on the strong counter.  The
\* thread that read 1 goes on to drop the payload.
ConcDrop(t, hv) ==
    LET a == hv.box IN
    /\ threads[t].pc = "idle"
    /\ HeldStrong(hv)
    /\ heap' = FetchSubStrong(heap, a)
    /\ strongs' = [strongs EXCEPT ![a] = @ - 1]
    /\ threads' = [threads EXCEPT ![t] =
                      IF heap[a].strong = 1 THEN At("drop_data", a, 0, 0) ELSE Idle]
    /\ UNCHANGED <<family, weaks, dangling, raws, cyc, last>>

\* Second step: drop_in_place of the payload (also the end of make_mut's
\* release of its old handle, when that was the last one).
ConcDropData(t) ==
    LET T == threads[t] IN
    /\ T.pc \in {"drop_data", "mm_drop_data"}
    /\ heap' = TakePayload(heap, T.box)
    /\ threads' = [threads EXCEPT ![t].pc = IF T.pc = "drop_data" THEN "drop_weak"
                                                                 ELSE "mm_drop_weak"]
    /\ UNCHANGED <<family, strongs, weaks, dangling, raws, cyc, last>>

\* Third step: the implicit weak reference goes (also the end of make_mut's
\* move of the payload away from the weak handles).
ConcDropWeak(t) ==
    LET T == threads[t] IN
    /\ T.pc \in {"drop_weak", "mm_drop_weak"}
    /\ heap' = ArcDropWeakRef(heap, T.box)
    /\ threads' = [threads EXCEPT ![t] = IF T.pc = "drop_weak" THEN Idle
                                         ELSE At("write", T.out, 0, T.out)]
    /\ UNCHANGED <<family, strongs, weaks, dangling, raws, cyc, last>>

\* Weak::upgrade, first step: load the strong counter; 0 ends the call.
ConcUpgradeLoad(t, wv) ==
    LET a == wv.box
        n == heap[a].strong
    IN
    /\ threads[t].pc = "idle"
    /\ wv.kind = "ptr"
    /\ HeldWeak(wv)
    /\ ConcRoom
    /\ IF n = 0
       THEN /\ last' = Ret("upgrade", a, 0, "none", 0, "none", n, 0)
            /\ UNCHANGED <<weaks, threads>>
       ELSE /\ weaks' = [weaks EXCEPT ![a] = @ - 1]
            /\ threads' = [threads EXCEPT ![t] = At("upgrade_cas", a, n, 0)]
            /\ UNCHANGED last
    /\ UNCHANGED <<family, heap, strongs, dangling, raws, cyc>>

\* Faulty variant: an upgrade that increments whatever the counter holds now.
ConcUpgradeCas_FetchAdd(t) ==
    LET T == threads[t]
        a == T.box
    IN
    /\ T.pc = "upgrade_cas"
    /\ heap' = FetchAddStrong(heap, a)
    /\ strongs' = [strongs EXCEPT ![a] = @ + 1]
    /\ weaks' = [weaks EXCEPT ![a] = @ + 1]
    /\ threads' = [threads EXCEPT ![t] = Idle]
    /\ last' = Ret("upgrade", a, a, "some", 0, "none", T.n, 0)
    /\ UNCHANGED <<family, dangling, raws, cyc>>

\* Second step: compare-exchange the strong counter from the value loaded to
\* one more.  If the counter has changed, the value it holds now is checked
\* again: 0 ends the call, anything else is tried next.
ConcUpgradeCas(t) ==
    LET T == threads[t]
        a == T.box
        cas == CasStrong(heap, a, T.n, T.n + 1)
        now == heap[a].strong
    IN
    /\ T.pc = "upgrade_cas"
    /\ heap' = cas.hp
    /\ IF cas.ok
       THEN /\ strongs' = [strongs EXCEPT ![a] = @ + 1]
            /\ weaks' = [weaks EXCEPT ![a] = @ + 1]
            /\ threads' = [threads EXCEPT ![t] = Idle]
            /\ last' = Ret("upgrade", a, a, "some", 0, "none", T.n, 0)
       ELSE IF now = 0
       THEN /\ weaks' = [weaks EXCEPT ![a] = @ + 1]
            /\ threads' = [threads EXCEPT ![t] = Idle]
            /\ last' = Ret("upgrade", a, 0, "none", 0, "none", T.n, 0)
            /\ UNCHANGED strongs
       ELSE /\ threads' = [threads EXCEPT ![t].n = now]
            /\ UNCHANGED <<strongs, weaks, last>>
    /\ UNCHANGED <<family, dangling, raws, cyc>>

\* Faulty variant: a make_mut that only loads the strong counter.
ConcMakeMutCas_LoadOnly(t, hv) ==
    LET a == hv.box IN
    /\ threads[t].pc = "idle"
    /\ HeldStrong(hv)
    /\ strongs' = [strongs EXCEPT ![a] = @ - 1]
    /\ threads' = [threads EXCEPT ![t] =
                      IF heap[a].strong = 1 THEN At("mm_weak", a, 0, 0)
                                            ELSE At("mm_clone", a, 0, 0)]
    /\ UNCHANGED <<family, heap, weaks, dangling, raws, cyc, last>>

\* make_mut, first step: compare-exchange the strong counter from 1 to 0.
ConcMakeMutCas(t, hv) ==
    LET a == hv.box
        cas == CasStrong(heap, a, 1, 0)
    IN
    /\ threads[t].pc = "idle"
    /\ HeldStrong(hv)
    /\ heap' = cas.hp
    /\ strongs' = [strongs EXCEPT ![a] = @ - 1]
    /\ threads' = [threads EXCEPT ![t] =
                      IF cas.ok THEN At("mm_weak", a, 0, 0) ELSE At("mm_clone", a, 0, 0)]
    /\ UNCHANGED <<family, weaks, dangling, raws, cyc, last>>

\* Other strong handles exist: clone the payload into a new Arc ...
ConcMakeMutClone(t) ==
    LET T == threads[t] IN
    /\ T.pc = "mm_clone"
    /\ \E b \in Addr :
        /\ Free(b)
        /\ heap' = [heap EXCEPT ![b] = NewCell(heap[T.box].val)]
        /\ threads' = [threads EXCEPT ![t] = At("mm_release", T.box, 0, b)]
    /\ UNCHANGED <<family, strongs, weaks, dangling, raws, cyc, last>>

\* ... and let go of the old handle (`*this = arc`): Arc's Drop.
ConcMakeMutRelease(t) ==
    LET T == threads[t] IN
    /\ T.pc = "mm_release"
    /\ heap' = FetchSubStrong(heap, T.box)
    /\ threads' = [threads EXCEPT ![t] =
                      IF heap[T.box].strong = 1 THEN At("mm_drop_data", T.box, 0, T.out)
                                                ELSE At("write", T.out, 0, T.out)]
    /\ UNCHANGED <<family, strongs, weaks, dangling, raws, cyc, last>>

\* No other strong handle: load the weak counter.
ConcMakeMutLoadWeak(t) ==
    LET T == threads[t] IN
    /\ T.pc = "mm_weak"
    /\ threads' = [threads EXCEPT ![t].pc = IF heap[T.box].weak # 1 THEN "mm_move"
                                                                   ELSE "mm_restore"]
    /\ UNCHANGED <<family, heap, strongs, weaks, dangling, raws, cyc, last>>

\* Weak handles remain: move the payload to a new Arc; the old cell keeps only
\* its implicit weak reference, dropped next.
ConcMakeMutMove(t) ==
    LET T == threads[t] IN
    /\ T.pc = "mm_move"
    /\ \E b \in Addr :
        /\ Free(b)
        /\ heap' = [TakePayload(heap, T.box) EXCEPT ![b] = NewCell(heap[T.box].val)]
        /\ threads' = [threads EXCEPT ![t] = At("mm_drop_weak", T.box, 0, b)]
    /\ UNCHANGED <<family, strongs, weaks, dangling, raws, cyc, last>>

\* The handle is unique: store 1 back in the strong counter.
ConcMakeMutRestore(t) ==
    LET T == threads[t] IN
    /\ T.pc = "mm_restore"
    /\ heap' = [heap EXCEPT ![T.box].strong = 1]
    /\ threads' = [threads EXCEPT ![t] = At("write", T.box, 0, T.box)]
    /\ UNCHANGED <<family, strongs, weaks, dangling, raws, cyc, last>>

\* make_mut has returned `&mut T`: the caller writes through it and the borrow
\* of the handle ends.
ConcWrite(t, m) ==
    LET T == threads[t]
        b == T.out
    IN
    /\ T.pc = "write"
    /\ heap' = [heap EXCEPT ![b].val = ApplyWrite(m, @)]
    /\ strongs' = [strongs EXCEPT ![b] = @ + 1]
    /\ threads' = [threads EXCEPT ![t] = Idle]
    /\ last' = Ret("make_mut", T.box, b, "ok", ApplyWrite(m, heap[b].val), m, heap[b].strong,
                   Arc_weak_count(Ptr(b)))
    /\ UNCHANGED <<family, weaks, dangling, raws, cyc>>

ConcNext ==
    \E t \in Threads :
        \/ \E v \in Values : ConcNew(t, v)
        \/ \E hv \in StrongHandles : ConcClone(t, hv)
        \/ \E hv \in StrongHandles : ConcDowngrade(t, hv)
        \/ \E wv \in WeakHandles : ConcWeakDrop(t, wv)
        \/ \E hv \in StrongHandles : ConcDrop(t, hv)
        \/ ConcDropData(t)
        \/ ConcDropWeak(t)
        \/ \E wv \in WeakHandles : ConcUpgradeLoad(t, wv)
        \/ ConcUpgradeCas(t)
        \/ \E hv \in StrongHandles : ConcMakeMutCas(t, hv)
        \/ ConcMakeMutClone(t)
        \/ ConcMakeMutRelease(t)
        \/ ConcMakeMutLoadWeak(t)
        \/ ConcMakeMutMove(t)
        \/ ConcMakeMutRestore(t)
        \/ \E m \in Mutations : ConcWrite(t, m)

ConcSpec == ConcInit /\ [][ConcNext]_vars

\* ---- sanity of the model ------------------------------------------------------
\* Each counter counts what it stands for.
CountsConsistent ==
    \A a \in Addr :
        /\ heap[a].strong = strongs[a] + raws[a]
        /\ heap[a].weak = weaks[a]
                          + (IF heap[a].strong > 0 \/ heap[a].st = "uninit" THEN 1 ELSE 0)
        /\ (heap[a].st = "live") = (heap[a].strong > 0)
        /\ (heap[a].st = "free") => heap[a] = FreeCell
        /\ (heap[a].st = "uninit") = (cyc.on /\ cyc.box = a)

\* ---- properties --------------------------------------------------------------
\* The handle the last call was made on, and the handle it returned.
ArgHandle == Ptr(last.box)
OutHandle == Ptr(last.out)
ArgWeak == IF last.box = 0 THEN DanglingWeak ELSE Ptr(last.box)

\* C1: for both families and every payload v, new(v) returns a handle to a
\* fresh allocation whose payload reads back as v, with strong_count 1 and
\* weak_count 0.
C1_NewIsFreshWithCounts ==
    [][last'.op = "new" =>
        /\ Free(last'.out)
        /\ HeldStrong(OutHandle)'
        /\ DerefTarget(OutHandle)' = last'.val
        /\ strong_count(OutHandle)' = 1
        /\ weak_count(OutHandle)' = 0
        /\ \A a \in Addr \ {last'.out} : heap'[a] = heap[a]]_vars

C1_Witness ==
    /\ last.op = "new"
    /\ last.val = 6
    /\ \E a \in Addr : a # last.out /\ heap[a].st = "live"

\* C2: cloning a strong handle raises the allocation's strong_count by exactly
\* one and leaves weak_count alone, and dropping one clone right afterwards
\* brings strong_count back to what it was before the clone.
C2_CloneThenDrop ==
    [][/\ last'.op = "clone" =>
            /\ last'.out = last'.box
            /\ strong_count(OutHandle)' = strong_count(ArgHandle') + 1
            /\ weak_count(OutHandle)' = weak_count(ArgHandle')
       /\ (last.op = "clone" /\ last'.op = "drop" /\ last'.box = last.out) =>
            /\ HeldStrong(ArgHandle)'
            /\ strong_count(ArgHandle)' = last.sc
            /\ weak_count(ArgHandle)' = last.wc]_vars

C2_Witness ==
    /\ last.op = "drop"
    /\ last.sc >= 2
    /\ HeldStrong(ArgHandle)
    /\ strong_count(ArgHandle) = last.sc - 1

\* C3: upgrade returns a new strong handle, raising strong_count by one, if and
\* only if the strong count of the weak handle's allocation is above zero when
\* it is called, and is unavailable otherwise: for the weak handle with no
\* allocation, and for a weak handle whose allocation has lost all its strong
\* handles, whatever is called afterwards.
C3_UpgradeIffStrong ==
    [][/\ last'.op \in {"upgrade", "initializer_upgrade"} =>
            /\ last'.res \in {"some", "none"}
            /\ (last'.res = "some") <=> (weak_strong_count(ArgWeak') > 0)
            /\ last'.res = "some" =>
                 /\ last'.out = last'.box
                 /\ strongs'[last'.out] = strongs[last'.out] + 1
                 /\ strong_count(OutHandle)' = strong_count(OutHandle') + 1
            /\ last'.res = "none" => (heap' = heap /\ strongs' = strongs)
            /\ last'.box = 0 => last'.res = "none"
       /\ \A a \in Addr :
            (heap[a].st = "dead" /\ weaks[a] > 0 /\ weaks'[a] > 0) =>
                (heap'[a].st = "dead" /\ weak_strong_count(Ptr(a))' = 0)]_vars

C3_Witness ==
    /\ last.op = "upgrade"
    /\ last.res = "none"
    /\ last.box # 0
    /\ heap[last.box].st = "dead"
    /\ \E a \in Addr : heap[a].st = "live"

\* C4: make_mut on a handle whose strong_count is 2 rebinds the caller to a
\* new allocation holding a copy of the payload: the caller's as_ptr changes,
\* the new allocation's strong_count is 1, and the sibling keeps its address
\* and its payload (A wraps 5, B = clone of A, make_mut(A) += 1: A is 6, B is 5).
C4_MakeMutSharedCopies ==
    [][(last'.op = "make_mut" /\ strong_count(ArgHandle') = 2) =>
        /\ Free(last'.out)
        /\ as_ptr(OutHandle)' # as_ptr(ArgHandle')
        /\ HeldStrong(OutHandle)'
        /\ strong_count(OutHandle)' = 1
        /\ DerefTarget(OutHandle)' = ApplyWrite(last'.arg, DerefTarget(ArgHandle'))
        /\ heap'[last'.box].st = "live"
        /\ strongs'[last'.box] + raws'[last'.box] = 1
        /\ strong_count(ArgHandle)' = 1
        /\ weak_count(ArgHandle)' = weak_count(ArgHandle')
        /\ DerefTarget(ArgHandle)' = DerefTarget(ArgHandle')]_vars

C4_Witness ==
    /\ last.op = "make_mut"
    /\ last.sc = 2
    /\ last.arg = "add1"
    /\ strongs[last.out] = 1
    /\ strongs[last.box] = 1
    /\ DerefTarget(OutHandle) = 6
    /\ DerefTarget(ArgHandle) = 5

\* C5 (as stated): for every handle whose strong_count is 1, make_mut leaves
\* the handle's as_ptr unchanged.
C5_AsStated ==
    (last.op = "make_mut" /\ last.sc = 1) => as_ptr(OutHandle) = as_ptr(ArgHandle)

\* C5 (amended): for every handle whose strong_count is 1 and whose weak_count
\* is 0, make_mut returns a reference to the payload in place: the handle's
\* as_ptr, the counts and every other allocation stay as they were.
C5_MakeMutUniqueInPlace ==
    [][(last'.op = "make_mut" /\ strong_count(ArgHandle') = 1
            /\ weak_count(ArgHandle') = 0) =>
        /\ as_ptr(OutHandle)' = as_ptr(ArgHandle')
        /\ strong_count(OutHandle)' = 1
        /\ weak_count(OutHandle)' = 0
        /\ DerefTarget(OutHandle)' = ApplyWrite(last'.arg, DerefTarget(ArgHandle'))
        /\ strongs' = strongs
        /\ \A a \in Addr \ {last'.box} : heap'[a] = heap[a]]_vars

C5_Witness ==
    /\ last.op = "make_mut"
    /\ last.sc = 1
    /\ last.wc = 0
    /\ last.arg = "add1"
    /\ DerefTarget(OutHandle) = 6

\* C6: try_unwrap on a handle with strong_count exactly 1 consumes the handle
\* and returns the payload; with strong_count 2 or more it gives the handle
\* back, and then no count and no payload changes and nothing is deallocated.
C6_TryUnwrap ==
    [][last'.op = "try_unwrap" =>
        IF strong_count(ArgHandle') = 1
        THEN /\ last'.res = "ok"
             /\ last'.val = DerefTarget(ArgHandle')
             /\ last'.out = 0
             /\ strongs'[last'.box] = strongs[last'.box] - 1
             /\ heap'[last'.box].st # "live"
        ELSE /\ last'.res = "err"
             /\ last'.out = last'.box
             /\ heap' = heap
             /\ strongs' = strongs
             /\ weaks' = weaks]_vars

C6_Witness ==
    /\ last.op = "try_unwrap"
    /\ last.res = "err"
    /\ last.sc = 2
    /\ strong_count(OutHandle) = 2

\* C7: get_mut returns a reference to the existing payload only if
\* strong_count is 1 and weak_count is 0, and is unavailable in every other
\* state; either way it allocates nothing, and leaves as_ptr and both counts
\* as they were.
C7_GetMut ==
    [][last'.op = "get_mut" =>
        /\ last'.res \in {"some", "none"}
        /\ (last'.res = "some") <=>
                (strong_count(ArgHandle') = 1 /\ weak_count(ArgHandle') = 0)
        /\ last'.out = last'.box
        /\ as_ptr(OutHandle)' = as_ptr(ArgHandle')
        /\ strong_count(ArgHandle)' = strong_count(ArgHandle')
        /\ weak_count(ArgHandle)' = weak_count(ArgHandle')
        /\ strongs' = strongs
        /\ weaks' = weaks
        /\ \A a \in Addr \ {last'.box} : heap'[a] = heap[a]
        /\ last'.res = "none" => heap' = heap
        /\ last'.res = "some" =>
                DerefTarget(ArgHandle)' = ApplyWrite(last'.arg, DerefTarget(ArgHandle'))]_vars

C7_Witness ==
    /\ last.op = "get_mut"
    /\ last.res = "none"
    /\ last.sc = 1
    /\ last.wc = 1

\* C8: the weak handle new_cyclic lends its initializer fails to upgrade while
\* the initializer runs; once new_cyclic has returned the strong handle
\* (strong_count 1), a copy the initializer kept upgrades, to the returned
\* handle's allocation, and is ptr_eq to a weak handle obtained by downgrade of
\* the returned handle.
C8_NewCyclic ==
    [][/\ last'.op = "initializer_upgrade" => last'.res = "none"
       /\ (last'.op = "upgrade" /\ cyc.on /\ last'.box = cyc.box) => last'.res = "none"
       /\ last'.op = "new_cyclic" =>
            /\ HeldStrong(OutHandle)'
            /\ strong_count(OutHandle)' = 1
            /\ weak_count(OutHandle)' = weaks[cyc.box]
            /\ ArgWeak' = CyclicWeak
            /\ Upgradable(ArgWeak)'
            /\ weak_as_ptr(CyclicWeak) = as_ptr(OutHandle)'
       /\ (last.op = "new_cyclic" /\ last'.op = "upgrade" /\ last'.box = last.box) =>
            /\ last'.res = "some"
            /\ as_ptr(OutHandle)' = as_ptr(OutHandle)
       /\ (last.op = "new_cyclic" /\ last'.op = "downgrade" /\ last'.box = last.out) =>
            weak_ptr_eq(ArgWeak, OutHandle')
       /\ last'.op = "downgrade" => weak_as_ptr(OutHandle)' = as_ptr(ArgHandle')]_vars

C8_Witness ==
    /\ last.op = "new_cyclic"
    /\ weaks[last.box] > 0
    /\ strong_count(OutHandle) = 1
    /\ weak_count(OutHandle) = 1

\* C9: from_raw(into_raw(h)) gives a handle with the as_ptr, the strong_count
\* and the weak_count h had before: into_raw hands over ownership and changes
\* neither count.
C9_RawRoundTrip ==
    [][/\ last'.op = "into_raw" =>
            /\ heap' = heap
            /\ RawPtr(last'.out) = as_ptr(ArgHandle')
       /\ (last.op = "into_raw" /\ last'.op = "from_raw" /\ last'.box = last.out) =>
            /\ HeldStrong(OutHandle)'
            /\ as_ptr(OutHandle)' = as_ptr(ArgHandle)
            /\ strong_count(OutHandle)' = last.sc
            /\ weak_count(OutHandle)' = last.wc]_vars

C9_Witness ==
    /\ last.op = "from_raw"
    /\ last.sc = 2
    /\ last.wc = 1
    /\ strongs[last.out] = 2

\* C10: downgrade followed by upgrade, on a strong handle that is still live,
\* gives a new strong handle to the same allocation: its as_ptr is the
\* original's (as_ptr is the same for all handles of an allocation, and for
\* clones).
C10_DowngradeUpgradeSamePtr ==
    [][/\ (last.op = "downgrade" /\ last'.op = "upgrade" /\ last'.box = last.out
                /\ HeldStrong(ArgHandle)) =>
            /\ last'.res = "some"
            /\ as_ptr(OutHandle)' = as_ptr(ArgHandle)
       /\ (last'.op = "upgrade" /\ last'.res = "some") =>
            as_ptr(OutHandle)' = weak_as_ptr(ArgWeak')
       /\ last'.op = "clone" => as_ptr(OutHandle)' = as_ptr(ArgHandle')]_vars

C10_Witness ==
    /\ last.op = "upgrade"
    /\ last.res = "some"
    /\ last.sc = 1
    /\ strongs[last.out] = 2

\* C11: run on one thread, the Rc flavor and the Arc flavor are observationally
\* equivalent: from every reachable state, each of clone, drop, downgrade,
\* upgrade, weak drop, make_mut, get_mut and try_unwrap takes the same step
\* with the same results in both flavors (a step is one of Rc's exactly when
\* it is one of Arc's), and as_ptr, strong_count, weak_count and ptr_eq read
\* the same in both, before and after.  (Each operation names itself in
\* `last`, so only the steps that carry its name can be steps of it.)
C11_FlavorsEquivalent ==
    [][/\ last'.op = "clone" =>
            \A hv \in StrongHandles : StrongClone(hv) <=> ArcClone(hv)
       /\ last'.op = "drop" =>
            \A hv \in StrongHandles : StrongDrop(hv) <=> ArcDrop(hv)
       /\ last'.op = "downgrade" =>
            \A hv \in StrongHandles : Downgrade(hv) <=> ArcDowngrade(hv)
       /\ last'.op = "try_unwrap" =>
            \A hv \in StrongHandles : TryUnwrap(hv) <=> ArcTryUnwrap(hv)
       /\ last'.op = "make_mut" =>
            \A hv \in StrongHandles, m \in Mutations : MakeMut(hv, m) <=> ArcMakeMut(hv, m)
       /\ last'.op = "get_mut" =>
            \A hv \in StrongHandles, m \in Mutations : GetMut(hv, m) <=> ArcGetMut(hv, m)
       /\ last'.op = "upgrade" =>
            \A wv \in WeakHandles : Upgrade(wv) <=> ArcUpgrade(wv)
       /\ last'.op = "initializer_upgrade" =>
            (InitializerUpgrade <=> ArcInitializerUpgrade)
       /\ last'.op = "weak_drop" =>
            \A wv \in WeakHandles : WeakDrop(wv) <=> ArcWeakDrop(wv)
       /\ \A hv \in StrongHandles :
            /\ HeldStrong(hv) =>
                    /\ Rc_as_ptr(hv) = Arc_as_ptr(hv)
                    /\ Rc_strong_count(hv) = Arc_strong_count(hv)
                    /\ Rc_weak_count(hv) = Arc_weak_count(hv)
            /\ HeldStrong(hv)' =>
                    /\ Rc_as_ptr(hv)' = Arc_as_ptr(hv)'
                    /\ Rc_strong_count(hv)' = Arc_strong_count(hv)'
                    /\ Rc_weak_count(hv)' = Arc_weak_count(hv)'
       /\ \A wv \in WeakHandles :
            /\ HeldWeak(wv) =>
                    /\ RcWeak_as_ptr(wv) = ArcWeak_as_ptr(wv)
                    /\ RcWeak_strong_count(wv) = ArcWeak_strong_count(wv)
                    /\ RcWeak_weak_count(wv) = ArcWeak_weak_count(wv)
                    /\ \A xv \in WeakHandles :
                            RcWeak_ptr_eq(wv, xv) = ArcWeak_ptr_eq(wv, xv)
            /\ HeldWeak(wv)' =>
                    /\ RcWeak_as_ptr(wv)' = ArcWeak_as_ptr(wv)'
                    /\ RcWeak_strong_count(wv)' = ArcWeak_strong_count(wv)'
                    /\ RcWeak_weak_count(wv)' = ArcWeak_weak_count(wv)'
                    /\ \A xv \in WeakHandles :
                            RcWeak_ptr_eq(wv, xv)' = ArcWeak_ptr_eq(wv, xv)']_vars

C11_Witness ==
    /\ family = "ArcMark"
    /\ last.op = "make_mut"
    /\ last.res = "moved"
    /\ last.sc = 1
    /\ last.wc = 1
    /\ weak_strong_count(ArgWeak) = 0

C13_UpgradeAtomic ==
    [][/\ \A t \in Threads :
            (threads[t].pc = "upgrade_cas" /\ threads'[t].pc = "idle") =>
                LET a == threads[t].box IN
                IF heap[a].strong > 0
                THEN /\ last'.res = "some"
                     /\ last'.out = a
                     /\ heap[a].strong = threads[t].n
                     /\ heap'[a].strong = heap[a].strong + 1
                     /\ strongs'[a] = strongs[a] + 1
                     /\ heap[a].st = "live"
                     /\ heap'[a].st = "live"
                     /\ heap'[a].val = heap[a].val
                ELSE /\ last'.res = "none"
                     /\ heap' = heap
                     /\ strongs' = strongs
       /\ \A t \in Threads :
            (threads[t].pc = "idle" /\ threads'[t].pc = "upgrade_cas") =>
                heap[threads'[t].box].strong > 0
       /\ \A t \in Threads :
            threads'[t].pc \in {"drop_data", "drop_weak", "mm_drop_data"} =>
                heap'[threads'[t].box].strong = 0
       /\ \A a \in Addr :
            strongs'[a] > 0 => (heap'[a].st = "live" /\ heap'[a].strong >= strongs'[a])]_vars

C13_Witness ==
    /\ last.op = "upgrade"
    /\ last.res = "none"
    /\ last.sc >= 1
    /\ \E u \in Threads : threads[u].pc = "drop_data" /\ threads[u].box = last.box
    /\ weaks[last.box] > 0

\* C14: a write through the reference make_mut returned is never visible
\* through another handle, under every interleaving with clones, upgrades and
\* drops by other threads.  While a thread holds the reference, its handle is
\* the only strong reference to the allocation, no weak handle refers to it
\* (so none from before the call can be upgraded to it), no other thread is
\* at work on it, and the write changes the payload of that allocation only.
C14_WriteIsolation ==
    [][\A t \in Threads :
        /\ threads'[t].pc = "write" =>
                LET b == threads'[t].out IN
                /\ heap'[b].st = "live"
                /\ heap'[b].strong = 1
                /\ heap'[b].weak = 1
                /\ strongs'[b] = 0
                /\ weaks'[b] = 0
                /\ \A u \in Threads \ {t} : threads'[u].box # b /\ threads'[u].out # b
        /\ (threads[t].pc = "write" /\ threads'[t].pc = "idle") =>
                LET b == threads[t].out IN
                /\ \A a \in Addr \ {b} : heap'[a] = heap[a]
                /\ heap'[b] = [heap[b] EXCEPT !.val = last'.val]
                /\ strongs'[b] = 1
                /\ \A u \in Threads \ {t} : threads'[u] = threads[u]]_vars

C14_Witness ==
    /\ last.op = "make_mut"
    /\ last.arg = "add1"
    /\ last.val = 6
    /\ last.box = last.out
    /\ heap[last.out].val = 6
    /\ \E a \in Addr : a # last.out /\ strongs[a] > 0 /\ heap[a].val = 5
    /\ \E u \in Threads : threads[u].pc = "upgrade_cas"

\* C15 (as stated): in every reachable state an allocation's payload is alive
\* if and only if the program holds at least one strong handle to it.
C15_AsStated ==
    \A a \in Addr : (heap[a].st = "live") <=> (strongs[a] > 0)

\* C15 (amended): an allocation's payload is alive if and only if a strong
\* reference to it is outstanding: a strong handle, or a raw address that owns
\* one (from into_raw or increment_strong_count).  The payload goes exactly at
\* the step that releases the last of them (a drop, try_unwrap, make_mut moving
\* it away, decrement_strong_count), and creating, cloning and dropping weak
\* handles changes no payload: they neither keep one alive nor deallocate one.
C15_PayloadAliveIffStrongRef ==
    [][/\ \A a \in Addr :
            /\ (heap[a].st = "live") <=> (strongs[a] + raws[a] > 0)
            /\ (heap'[a].st = "live") <=> (strongs'[a] + raws'[a] > 0)
            /\ (heap'[a].st = "live") <=> (heap'[a].strong > 0)
            /\ (heap[a].st = "live" /\ heap'[a].st # "live") =>
                    /\ last'.op \in {"drop", "try_unwrap", "make_mut", "decrement_strong_count"}
                    /\ last'.box = a
                    /\ last'.sc = 1
                    /\ strongs[a] + raws[a] = 1
            /\ (heap[a].st = "live" /\ heap'[a].st = "live") =>
                    strongs'[a] + raws'[a] >= 1
       /\ last'.op \in {"downgrade", "weak_new", "weak_clone", "weak_drop", "initializer_clone"} =>
            /\ UNCHANGED <<strongs, raws>>
            /\ \A a \in Addr :
                    /\ heap'[a].st = "live" <=> heap[a].st = "live"
                    /\ heap'[a].strong = heap[a].strong
                    /\ heap'[a].val = heap[a].val]_vars

C15_Witness ==
    /\ last.op = "weak_clone"
    /\ last.box # 0
    /\ heap[last.box].st = "dead"
    /\ weaks[last.box] = 2
    /\ \E a \in Addr : heap[a].st = "live" /\ strongs[a] = 0 /\ raws[a] = 1

\* C16: downgrade on a strong handle gives a new weak handle to the same
\* allocation, raises that allocation's weak_count by exactly one and leaves
\* its strong_count, its payload and every other allocation as they were.
C16_DowngradeFrame ==
    [][last'.op = "downgrade" =>
        /\ HeldStrong(ArgHandle')
        /\ last'.out = last'.box
        /\ weak_as_ptr(ArgWeak)' = as_ptr(ArgHandle')
        /\ weaks' = [weaks EXCEPT ![last'.out] = @ + 1]
        /\ weak_count(ArgHandle)' = weak_count(ArgHandle') + 1
        /\ strong_count(ArgHandle)' = strong_count(ArgHandle')
        /\ weak_weak_count(ArgWeak)' = last'.wc + 1
        /\ weak_strong_count(ArgWeak)' = last'.sc
        /\ DerefTarget(ArgHandle)' = DerefTarget(ArgHandle')
        /\ \A a \in Addr \ {last'.box} : heap'[a] = heap[a]
        /\ UNCHANGED <<strongs, dangling, raws>>]_vars

C16_Witness ==
    /\ last.op = "downgrade"
    /\ last.sc = 2
    /\ last.wc = 0
    /\ strong_count(ArgHandle) = 2
    /\ weak_count(ArgHandle) = 1
    /\ weaks[last.out] = 1

====
